---- MODULE Spec2Model ----
(***************************************************************************)
(* Model of the slide-video pipeline of zsc/songyang_tts_data:             *)
(*   process_video.py         scene boundaries -> segments                 *)
(*   convert_to_mp3.py        pass 1: WAV -> MP3 with silence trimming     *)
(*   trim_silence_inplace.py  pass 2: in-place trimming of the MP3 files   *)
(*                                                                         *)
(* Times are integers in microseconds, so that every constant of the code  *)
(* (0.05 s, 0.1 s, 0.5 s) and every product duration * 0.3 / duration*0.4  *)
(* that the model reaches is exact; Python's floats are modelled as exact  *)
(* reals.  ffmpeg/ffprobe are the environment: their diagnostic output is  *)
(* an input (a sequence of events), a transcode either succeeds and yields *)
(* a file of exactly the requested length, or fails.                       *)
(***************************************************************************)
EXTENDS Integers, Sequences, FiniteSets, TLC

VARIABLES
    \* ---- process_video.py: detect_scenes_upper_half
    seg_pc,        \* "start" | "done"
    pts,           \* the pts_time values parsed from ffmpeg's output, in output order
    vduration,     \* the video's duration (ffprobe)
    scene_times,   \* [0.0] + pts + [duration]
    segments,      \* the returned list of (start, end)
    \* ---- the trim planners run on one clip (both passes)
    plan_pc,       \* "input" | "pass1" | "pass2"
    plan_in,       \* [duration, events]: the probed duration and silencedetect's output
    plan_out,      \* what the pass computed and applied
    \* ---- the two scripts run over the manifest
    pc,            \* "idle" | "pass1" | "pass2" | "crashed"
    idx,           \* position of the for-loop over the sections (1-based)
    work,          \* new_sections / updated_sections: the list being built in memory
    summary,       \* output_sections/sections_summary.json (written by process_video)
    manifest,      \* output_sections_mp3/sections_summary.json (<<>>: not written yet)
    wav,           \* clip -> the extracted WAV file
    mp3,           \* clip -> the MP3 file
    passes,        \* number of runs of trim_silence_inplace.py started
    last           \* what the last per-clip step saw and did

segVars  == <<seg_pc, pts, vduration, scene_times, segments>>
planVars == <<plan_pc, plan_in, plan_out>>
pipeVars == <<pc, idx, work, summary, manifest, wav, mp3, passes, last>>
vars     == <<segVars, planVars, pipeVars>>

---------------------------------------------------------------------------
(* Units and the constants of the code *)

Second == 1000 * 1000
Centi  == 10 * 1000

MinSegment     == 500000   \* process_video.py:75      end - start >= 0.5
LeadEps        == 100000   \* silence_starts[0] <= 0.1 / first_silence[0] <= 0.1
Pad1Lead       == 100000   \* convert_to_mp3.py:119    start_trim - 0.1
Pad1Tail       == 100000   \* convert_to_mp3.py:126    end_trim - 0.1
MaxFrac1       == 3        \* convert_to_mp3.py:135    duration * 0.3
MinKeep        == 500000   \* actual_duration <= 0.5 / new_duration < 0.5
Pad2Lead       == 50000    \* trim_silence_inplace.py:77   trim_start - 0.05
Pad2Tail       == 100000   \* trim_silence_inplace.py:84   trim_end - 0.1
TailEps        == 100000   \* trim_silence_inplace.py:85   duration - 0.1
MaxFrac2       == 4        \* trim_silence_inplace.py:90   duration * 0.4
ApplyThreshold == 100000   \* trim_silence_inplace.py:101  trim_start > 0.1 or trim_end > 0.1
FracDen        == 10       \* the fractions 0.3 and 0.4 are MaxFrac1/FracDen, MaxFrac2/FracDen

Max(a, b) == IF a >= b THEN a ELSE b
Min(a, b) == IF a <= b THEN a ELSE b

RECURSIVE SumSeq(_)
SumSeq(s) == IF s = <<>> THEN 0 ELSE Head(s) + SumSeq(Tail(s))

\* Sequences over S of length at most n
SeqsUpTo(S, n) == UNION {[1..k -> S] : k \in 0..n}

NonDecreasing(s) == \A i \in 1..(Len(s) - 1) : s[i] <= s[i + 1]

---------------------------------------------------------------------------
(* process_video.py: detect_scenes_upper_half, lines 49-78 *)

MaxScenes == 3

SceneGrid == {0, 300000, 5000000, 5050000, 5500000, 12000000}
VideoDurations == {300000, 5500000, 12000000}

\* lines 50-68: scene_times = [0.0]; append every pts_time; append duration
SceneTimes(p, d) == <<0>> \o p \o <<d>>

\* the loop of lines 72-76, from index i on, keeping a candidate of at least min
RECURSIVE SegmentLoop(_, _, _)
SegmentLoop(st, i, min) ==
    IF i > Len(st) - 1 THEN <<>>
    ELSE (IF st[i + 1] - st[i] >= min
          THEN <<[start |-> st[i], end |-> st[i + 1]]>>
          ELSE <<>>)
         \o SegmentLoop(st, i + 1, min)

\* a build whose test is "> 0.5": a candidate of exactly 0.5 s is lost
MutSegmentsStrict(st) == SegmentLoop(st, 1, MinSegment + 1)

\* lines 70-76: segments = the adjacent pairs with end - start >= 0.5
Segments(st) == SegmentLoop(st, 1, MinSegment)

SegInit ==
    /\ seg_pc = "start"
    /\ pts \in SeqsUpTo(SceneGrid, MaxScenes)
    /\ vduration \in VideoDurations
    /\ scene_times = <<>>
    /\ segments = <<>>

detect_scenes_upper_half ==
    /\ seg_pc = "start"
    /\ scene_times' = SceneTimes(pts, vduration)
    /\ segments' = Segments(SceneTimes(pts, vduration))
    /\ seg_pc' = "done"
    /\ UNCHANGED <<pts, vduration>>

SegIdle ==
    /\ seg_pc = "off" /\ pts = <<>> /\ vduration = 0
    /\ scene_times = <<>> /\ segments = <<>>

---------------------------------------------------------------------------
(* silencedetect's output and its two parsers *)

\* One "silence_start: t" or "silence_end: t" line that the regular expression matches.
\* A line whose number the expression [\d.]+ cannot read (a negative silence_start) is
\* skipped by both parsers, which leaves a silence_end with no silence_start before it.
Event(k, t) == [kind |-> k, t |-> t]

NONE == 0 - 1     \* Python's None: an open end, no current start

MaxEvents == 4

\* the times at which the model lets silence start or end in a clip of duration d
TimeGrid(d) ==
    {t \in {0, 100000, 150000, 1000000,
            d - 1500000, d - 150000, d - 100000, d} : 0 <= t /\ t <= d}

\* event sequences of length at most n in time order, of any kinds, built one event at a
\* time (each element is a sequence of <<kind, time>>)
RECURSIVE EventSeqs(_, _)
EventSeqs(grid, n) ==
    IF n = 0 THEN {<<>>}
    ELSE LET shorter == EventSeqs(grid, n - 1) IN
         shorter \cup
         UNION {{Append(ev, <<k, t>>) :
                    k \in {"start", "end"},
                    t \in {u \in grid : n = 1 \/ ev[n - 1][2] <= u}} :
                ev \in {x \in shorter : Len(x) = n - 1}}

Events(ev) == [i \in 1..Len(ev) |-> Event(ev[i][1], ev[i][2])]

IsStart(e) == e.kind = "start"
IsEnd(e) == e.kind = "end"
TimesOf(s) == [i \in 1..Len(s) |-> s[i].t]

\* convert_to_mp3.py detect_silence, lines 26-40: two independent lists
detect_silence(ev) ==
    [silence_starts |-> TimesOf(SelectSeq(ev, IsStart)),
     silence_ends   |-> TimesOf(SelectSeq(ev, IsEnd))]

\* trim_silence_inplace.py detect_silence_full, lines 25-44: paired intervals
RECURSIVE ParseFull(_, _, _)
ParseFull(ev, current_start, silences) ==
    IF ev = <<>>
    THEN IF current_start # NONE
         THEN Append(silences, [start |-> current_start, end |-> NONE])
         ELSE silences
    ELSE LET e == Head(ev) IN
         IF e.kind = "start"
         THEN ParseFull(Tail(ev), e.t, silences)
         ELSE IF current_start # NONE
              THEN ParseFull(Tail(ev), NONE,
                             Append(silences, [start |-> current_start, end |-> e.t]))
              ELSE ParseFull(Tail(ev), current_start, silences)

detect_silence_full(ev) == ParseFull(ev, NONE, <<>>)

---------------------------------------------------------------------------
(* pass 1: convert_to_mp3.py *)

\* duration * 0.3 and duration * 0.4
Fraction(d, num) == (d * num) \div FracDen

\* main, lines 113-119
StartTrim1(ss, se) ==
    IF Len(ss) > 0 /\ Len(se) > 0 /\ ss[1] <= LeadEps
    THEN Max(0, se[1] - Pad1Lead)
    ELSE 0

\* main, lines 121-132: only silence that is still open at the end is trimmed
EndTrim1(ss, se, d) ==
    IF Len(ss) > 0 /\ Len(ss) > Len(se)
    THEN Max(0, (d - ss[Len(ss)]) - Pad1Tail)
    ELSE 0

\* a planner that forgets the 30% clamp of lines 135-137
MutPlan1NoClamp(ss, se, d) ==
    [start_trim |-> StartTrim1(ss, se), end_trim |-> EndTrim1(ss, se, d)]

\* main, lines 109-137: the clamped candidates handed to convert_to_mp3_trimmed
Plan1(ss, se, d) ==
    [start_trim |-> Min(StartTrim1(ss, se), Fraction(d, MaxFrac1)),
     end_trim   |-> Min(EndTrim1(ss, se, d), Fraction(d, MaxFrac1))]

\* a conversion without the veto of lines 64-68
MutConvertNoVeto(d, start_trim, end_trim) ==
    [start_trim |-> start_trim, end_trim |-> end_trim,
     actual_duration |-> d - start_trim - end_trim]

\* convert_to_mp3_trimmed, lines 59-80: the values it returns, which are also the
\* -ss and -t it gives ffmpeg; the exit status of ffmpeg is not looked at
convert_to_mp3_trimmed(d, start_trim, end_trim) ==
    IF d - start_trim - end_trim <= MinKeep
    THEN [start_trim |-> 0, end_trim |-> 0, actual_duration |-> d]
    ELSE [start_trim |-> start_trim, end_trim |-> end_trim,
          actual_duration |-> d - start_trim - end_trim]

---------------------------------------------------------------------------
(* pass 2: trim_silence_inplace.py *)

\* lines 72-77; "first_silence[1] if first_silence[1] else 0": None and 0.0 both give 0
StartTrim2(silences) ==
    LET first_silence == silences[1] IN
    IF first_silence.start <= LeadEps
    THEN Max(0, (IF first_silence.end = NONE THEN 0 ELSE first_silence.end) - Pad2Lead)
    ELSE 0

\* a tail rule that forgets the interval still open at the end of the file
MutEndTrim2ClosedOnly(silences, d) ==
    LET last_silence == silences[Len(silences)] IN
    IF last_silence.end # NONE /\ last_silence.end >= d - TailEps
    THEN Max(0, (d - last_silence.start) - Pad2Tail)
    ELSE 0

\* lines 79-87
EndTrim2(silences, d) ==
    LET last_silence == silences[Len(silences)] IN
    IF last_silence.end = NONE
    THEN Max(0, (d - last_silence.start) - Pad2Tail)
    ELSE IF last_silence.end >= d - TailEps
         THEN Max(0, (d - last_silence.start) - Pad2Tail)
         ELSE 0

\* a planner that forgets the 40% clamp of lines 90-93
MutPlan2NoClamp(silences, d) ==
    [trim_start |-> StartTrim2(silences), trim_end |-> EndTrim2(silences, d)]

\* lines 68-93: the clamped candidates (silences is not empty)
Plan2(silences, d) ==
    [trim_start |-> Min(StartTrim2(silences), Fraction(d, MaxFrac2)),
     trim_end   |-> Min(EndTrim2(silences, d), Fraction(d, MaxFrac2))]

Kept(d) == [trim_start |-> 0, trim_end |-> 0, orig |-> d, new |-> d,
            ran |-> FALSE, replaced |-> FALSE]

\* an in-place trim without the veto of lines 97-99
MutTrimNoVeto(silences, d, ok) ==
    IF silences = <<>> THEN Kept(d)
    ELSE LET p == Plan2(silences, d)
             new_duration == d - p.trim_start - p.trim_end
         IN  IF p.trim_start > ApplyThreshold \/ p.trim_end > ApplyThreshold
             THEN IF ok
                  THEN [trim_start |-> p.trim_start, trim_end |-> p.trim_end,
                        orig |-> d, new |-> new_duration, ran |-> TRUE, replaced |-> TRUE]
                  ELSE [Kept(d) EXCEPT !.ran = TRUE]
             ELSE Kept(d)

\* trim_silence_inplace, lines 62-127: (trim_start, trim_end, original, new), whether
\* ffmpeg was run (ran) and whether os.replace put the temporary file in place of the
\* MP3 (replaced); ok is ffmpeg's returncode == 0
trim_silence_inplace(silences, d, ok) ==
    IF silences = <<>> THEN Kept(d)
    ELSE LET p == Plan2(silences, d)
             new_duration == d - p.trim_start - p.trim_end
         IN  IF new_duration < MinKeep THEN Kept(d)
             ELSE IF p.trim_start > ApplyThreshold \/ p.trim_end > ApplyThreshold
                  THEN IF ok
                       THEN [trim_start |-> p.trim_start, trim_end |-> p.trim_end,
                             orig |-> d, new |-> new_duration,
                             ran |-> TRUE, replaced |-> TRUE]
                       ELSE [Kept(d) EXCEPT !.ran = TRUE]
                  ELSE Kept(d)

---------------------------------------------------------------------------
(* One clip through one pass: the planners and the veto on bounded inputs *)

PlanDurations == {400000, 1000000, 2000000, 10000000}

NoPlan == [pass |-> 0, cand_lead |-> 0, cand_tail |-> 0, lead |-> 0, tail |-> 0,
           new |-> 0, ran |-> FALSE, ok |-> FALSE, ss |-> NONE, t |-> NONE]

PlanInit ==
    /\ plan_pc = "input"
    /\ \E d \in PlanDurations :
         \E ev \in EventSeqs(TimeGrid(d), MaxEvents) :
            plan_in = [duration |-> d, events |-> Events(ev)]
    /\ plan_out = NoPlan

\* convert_to_mp3.py main, lines 105-146, for one section
RunPass1 ==
    /\ plan_pc = "input"
    /\ LET d == plan_in.duration
           s == detect_silence(plan_in.events)
           p == Plan1(s.silence_starts, s.silence_ends, d)
           r == convert_to_mp3_trimmed(d, p.start_trim, p.end_trim)
       IN  plan_out' = [pass |-> 1, cand_lead |-> p.start_trim, cand_tail |-> p.end_trim,
                        lead |-> r.start_trim, tail |-> r.end_trim,
                        new |-> r.actual_duration, ran |-> TRUE, ok |-> TRUE,
                        ss |-> r.start_trim, t |-> r.actual_duration]
    /\ plan_pc' = "pass1"
    /\ UNCHANGED plan_in

\* trim_silence_inplace.py trim_silence_inplace, lines 57-127, on one MP3
RunPass2 ==
    /\ plan_pc = "input"
    /\ LET d == plan_in.duration
           silences == detect_silence_full(plan_in.events)
           p == IF silences = <<>> THEN [trim_start |-> 0, trim_end |-> 0]
                ELSE Plan2(silences, d)
       IN  \E ok \in BOOLEAN :
             LET r == trim_silence_inplace(silences, d, ok) IN
             /\ r.ran \/ ok       \* ffmpeg's exit status exists only when ffmpeg ran
             /\ plan_out' = [pass |-> 2, cand_lead |-> p.trim_start,
                             cand_tail |-> p.trim_end,
                             lead |-> r.trim_start, tail |-> r.trim_end,
                             new |-> r.new, ran |-> r.ran, ok |-> ok,
                             ss |-> IF r.ran THEN p.trim_start ELSE NONE,
                             t |-> IF r.ran THEN d - p.trim_start - p.trim_end ELSE NONE]
    /\ plan_pc' = "pass2"
    /\ UNCHANGED plan_in

PlanIdle == plan_pc = "off" /\ plan_in = [duration |-> 0, events |-> <<>>] /\ plan_out = NoPlan

---------------------------------------------------------------------------
(* The two scripts run over the manifest *)

NClips    == 2
MaxPasses == 2     \* runs of trim_silence_inplace.py

Clips == 1..NClips

PipeDurations == {1 * Second, 3 * Second}

\* silencedetect's output for a clip of duration d, as ffmpeg writes it (start, end,
\* start, ... at increasing times): nothing; silence over the first second; silence
\* over the first 0.15 s; silence over the last 1.5 s, still open at the end; both
PipeEvents(d) ==
    {<<>>}
    \cup (IF d >= Second
          THEN {<<Event("start", 0), Event("end", Second)>>} ELSE {})
    \cup (IF d >= 15 * Centi
          THEN {<<Event("start", 0), Event("end", 15 * Centi)>>} ELSE {})
    \cup (IF d >= 150 * Centi
          THEN {<<Event("start", d - 150 * Centi)>>} ELSE {})
    \cup (IF d > 250 * Centi
          THEN {<<Event("start", 0), Event("end", Second),
                  Event("start", d - 150 * Centi)>>} ELSE {})

Missing == [exists |-> FALSE, dur |-> 0]
File(d) == [exists |-> TRUE, dur |-> d]

NoStep == [kind |-> "none", pass |-> 0, clip |-> 0, nosilence |-> FALSE,
           ran |-> FALSE, ok |-> FALSE, lead |-> 0, tail |-> 0,
           plan_lead |-> 0, plan_tail |-> 0,
           before |-> <<>>, file_before |-> Missing]

\* process_video.py main, lines 130-149: one record and one WAV per segment; the exit
\* status of the extraction is not looked at, so a WAV may be missing
PipeInit ==
    /\ pc = "idle"
    /\ idx = 0
    /\ work = <<>>
    /\ \E durs \in [Clips -> PipeDurations] :
         /\ summary = [i \in Clips |-> [section |-> i, duration |-> durs[i], audio |-> "wav"]]
         /\ \E there \in [Clips -> BOOLEAN] :
              wav = [i \in Clips |-> IF there[i] THEN File(durs[i]) ELSE Missing]
    /\ manifest = <<>>
    /\ mp3 = [i \in Clips |-> Missing]
    /\ passes = 0
    /\ last = NoStep

\* convert_to_mp3.py main, lines 158-168
NewSection(section, d, r) ==
    [section |-> section.section, duration |-> r.actual_duration, audio |-> "mp3",
     trim_start |-> r.start_trim, trim_end |-> r.end_trim, original_duration |-> d]

\* an update that overwrites the recorded trims instead of adding to them
MutUpdateOverwrite(section, r) ==
    IF r.trim_start > 0 \/ r.trim_end > 0
    THEN [section EXCEPT !.trim_start = r.trim_start, !.trim_end = r.trim_end,
                         !.duration = r.new]
    ELSE section

\* an update that applies the recorded trims a second time on every pass
MutUpdateDoubleApply(section, r) ==
    [section EXCEPT !.trim_start = @ + @ + r.trim_start,
                    !.trim_end = @ + @ + r.trim_end,
                    !.duration = r.new]

\* an update that adds the trims but leaves the recorded duration as it was
MutUpdateStaleDuration(section, r) ==
    [section EXCEPT !.trim_start = @ + r.trim_start,
                    !.trim_end = @ + r.trim_end]

\* trim_silence_inplace.py main, lines 164-175
UpdateSection(section, r) ==
    IF r.trim_start > 0 \/ r.trim_end > 0
    THEN [section EXCEPT !.trim_start = @ + r.trim_start, !.trim_end = @ + r.trim_end,
                         !.duration = r.new]
    ELSE section

\* convert_to_mp3.py main, lines 87-95
Pass1Start ==
    /\ pc = "idle" /\ manifest = <<>>
    /\ pc' = "pass1" /\ idx' = 1 /\ work' = <<>> /\ last' = NoStep
    /\ UNCHANGED <<summary, manifest, wav, mp3, passes>>

\* convert_to_mp3.py main, lines 97-168, one iteration over a readable WAV
Pass1Clip ==
    /\ pc = "pass1" /\ idx <= NClips /\ wav[idx].exists
    /\ LET d == wav[idx].dur IN
       \E ev \in PipeEvents(d), ok \in BOOLEAN :
         LET s == detect_silence(ev)
             p == Plan1(s.silence_starts, s.silence_ends, d)
             r == convert_to_mp3_trimmed(d, p.start_trim, p.end_trim)
         IN  /\ mp3' = IF ok THEN [mp3 EXCEPT ![idx] = File(r.actual_duration)] ELSE mp3
             /\ work' = Append(work, NewSection(summary[idx], d, r))
             /\ last' = [kind |-> "clip", pass |-> 1, clip |-> idx,
                         nosilence |-> (ev = <<>>), ran |-> TRUE, ok |-> ok,
                         lead |-> r.start_trim, tail |-> r.end_trim,
                         plan_lead |-> p.start_trim, plan_tail |-> p.end_trim,
                         before |-> summary[idx], file_before |-> mp3[idx]]
    /\ idx' = idx + 1
    /\ UNCHANGED <<pc, summary, manifest, wav, passes>>

\* convert_to_mp3.py line 107 on a WAV ffprobe cannot read: float('') raises ValueError,
\* nothing catches it and the script ends
Pass1ProbeFails ==
    /\ pc = "pass1" /\ idx <= NClips /\ ~wav[idx].exists
    /\ pc' = "crashed"
    /\ last' = [NoStep EXCEPT !.kind = "probe_failed", !.pass = 1, !.clip = idx,
                              !.before = summary[idx], !.file_before = mp3[idx]]
    /\ UNCHANGED <<idx, work, summary, manifest, wav, mp3, passes>>

\* convert_to_mp3.py main, lines 170-173
Pass1End ==
    /\ pc = "pass1" /\ idx > NClips
    /\ manifest' = work
    /\ pc' = "idle"
    /\ UNCHANGED <<idx, work, summary, wav, mp3, passes, last>>

\* trim_silence_inplace.py main, lines 130-140
Pass2Start ==
    /\ pc = "idle" /\ manifest # <<>> /\ passes < MaxPasses
    /\ pc' = "pass2" /\ idx' = 1 /\ work' = <<>> /\ last' = NoStep
    /\ passes' = passes + 1
    /\ UNCHANGED <<summary, manifest, wav, mp3>>

\* trim_silence_inplace.py main, lines 142-175, one iteration over a readable MP3
Pass2Clip ==
    /\ pc = "pass2" /\ idx <= NClips /\ mp3[idx].exists
    /\ LET d == mp3[idx].dur IN
       \E ev \in PipeEvents(d), ok \in BOOLEAN :
         LET silences == detect_silence_full(ev)
             r == trim_silence_inplace(silences, d, ok)
             p == IF silences = <<>> THEN [trim_start |-> 0, trim_end |-> 0]
                  ELSE Plan2(silences, d)
         IN  /\ r.ran \/ ok
             /\ mp3' = IF r.replaced THEN [mp3 EXCEPT ![idx] = File(r.new)] ELSE mp3
             /\ work' = Append(work, UpdateSection(manifest[idx], r))
             /\ last' = [kind |-> "clip", pass |-> 2, clip |-> idx,
                         nosilence |-> (silences = <<>>), ran |-> r.ran, ok |-> ok,
                         lead |-> r.trim_start, tail |-> r.trim_end,
                         plan_lead |-> p.trim_start, plan_tail |-> p.trim_end,
                         before |-> manifest[idx], file_before |-> mp3[idx]]
    /\ idx' = idx + 1
    /\ UNCHANGED <<pc, summary, manifest, wav, passes>>

\* trim_silence_inplace.py line 151 on an MP3 ffprobe cannot read: float('') raises
\* ValueError, nothing catches it and the script ends before line 178
Pass2ProbeFails ==
    /\ pc = "pass2" /\ idx <= NClips /\ ~mp3[idx].exists
    /\ pc' = "crashed"
    /\ last' = [NoStep EXCEPT !.kind = "probe_failed", !.pass = 2, !.clip = idx,
                              !.before = manifest[idx], !.file_before = mp3[idx]]
    /\ UNCHANGED <<idx, work, summary, manifest, wav, mp3, passes>>

\* trim_silence_inplace.py main, lines 177-179
Pass2End ==
    /\ pc = "pass2" /\ idx > NClips
    /\ manifest' = work
    /\ pc' = "idle"
    /\ UNCHANGED <<idx, work, summary, wav, mp3, passes, last>>

PipeIdle ==
    /\ pc = "off" /\ idx = 0 /\ work = <<>> /\ summary = <<>> /\ manifest = <<>>
    /\ wav = <<>> /\ mp3 = <<>> /\ passes = 0 /\ last = NoStep

---------------------------------------------------------------------------
(* Claims about the segment builder (SpecSegments) *)

SegLength(sg) == sg.end - sg.start

\* the segments tile [0, d]: first starts at 0, last ends at d, each ends where the next starts
IsPartition(segs, d) ==
    /\ Len(segs) >= 1
    /\ segs[1].start = 0
    /\ segs[Len(segs)].end = d
    /\ \A k \in 1..(Len(segs) - 1) : segs[k].end = segs[k + 1].start

\* the candidates between adjacent entries of scene_times that are shorter than 0.5 s
ShortCandidates(st) == {i \in 1..(Len(st) - 1) : st[i + 1] - st[i] < MinSegment}
DroppedLength(st) ==
    SumSeq([i \in 1..(Len(st) - 1) |->
              IF i \in ShortCandidates(st) THEN st[i + 1] - st[i] ELSE 0])
CoveredLength(segs) == SumSeq([k \in 1..Len(segs) |-> SegLength(segs[k])])

---------------------------------------------------------------------------
(* Claims about one clip in one pass (SpecPlanner) *)

PlanDone == plan_pc \in {"pass1", "pass2"}

\* the policy of the pass that ran
PadTail == IF plan_out.pass = 1 THEN Pad1Tail ELSE Pad2Tail
MaxFrac == IF plan_out.pass = 1 THEN MaxFrac1 ELSE MaxFrac2

\* the silence intervals of the input, read as pairs
Intervals == detect_silence_full(plan_in.events)

\* C2: whenever the clamped candidates would leave less than 0.5 s, the pass returns
\* (0, 0) and the full duration; pass 1 then has ffmpeg copy the whole clip (-ss 0,
\* -t duration) and pass 2 does not run ffmpeg at all, so the MP3 is not touched.
C2_SafetyVeto ==
    (PlanDone /\ plan_in.duration - plan_out.cand_lead - plan_out.cand_tail < MinKeep) =>
      /\ plan_out.lead = 0 /\ plan_out.tail = 0
      /\ plan_out.new = plan_in.duration
      /\ plan_out.pass = 1 => (plan_out.ss = 0 /\ plan_out.t = plan_in.duration)
      /\ plan_out.pass = 2 => ~plan_out.ran

\* pass 1 on a 0.4 s clip with 0.3 s of leading silence: the candidate lead of 0.12 s
\* would leave 0.28 s and is given up; ffmpeg converts the whole clip
C2_Witness ==
    /\ plan_pc = "pass1"
    /\ plan_in = [duration |-> 40 * Centi,
                  events |-> <<Event("start", 0), Event("end", 30 * Centi)>>]
    /\ plan_out.cand_lead = 12 * Centi /\ plan_out.cand_tail = 0
    /\ plan_out.lead = 0 /\ plan_out.tail = 0 /\ plan_out.new = 40 * Centi
    /\ plan_out.ss = 0 /\ plan_out.t = 40 * Centi

\* the clip's only silence interval starts within 0.1 s of zero and never ends
OnlySilenceIsOpenFromStart ==
    IF plan_out.pass = 1
    THEN LET s == detect_silence(plan_in.events) IN
         /\ Len(s.silence_starts) = 1 /\ s.silence_ends = <<>>
         /\ s.silence_starts[1] <= LeadEps
    ELSE /\ Len(Intervals) = 1
         /\ Intervals[1].start <= LeadEps /\ Intervals[1].end = NONE

OpenStart ==
    IF plan_out.pass = 1 THEN detect_silence(plan_in.events).silence_starts[1]
    ELSE Intervals[1].start

C5_ClosedTrailingSilenceTrimmed ==
    (/\ PlanDone
     /\ Intervals # <<>>
     /\ Intervals[Len(Intervals)].end # NONE
     /\ Intervals[Len(Intervals)].end >= plan_in.duration - TailEps) =>
      LET d == plan_in.duration
          start == Intervals[Len(Intervals)].start
      IN  /\ plan_out.cand_tail = Min(Max(0, (d - start) - PadTail), Fraction(d, MaxFrac))
          /\ (/\ plan_out.pass = 1 /\ d = 10 * Second
              /\ plan_in.events = <<Event("start", 0), Event("end", Second),
                                    Event("start", 850 * Centi), Event("end", d)>>) =>
               /\ plan_out.lead = 90 * Centi /\ plan_out.tail = 140 * Centi
               /\ plan_out.new = 770 * Centi

ScenarioB_Closed ==
    plan_in = [duration |-> 2 * Second,
               events |-> <<Event("start", 0), Event("end", 190 * Centi)>>]
ScenarioB_Open ==
    plan_in = [duration |-> 2 * Second, events |-> <<Event("start", 0)>>]

C10_TrimPlanBounds ==
    PlanDone =>
      /\ plan_out.lead >= 0 /\ plan_out.tail >= 0
      /\ FracDen * plan_out.lead <= MaxFrac * plan_in.duration
      /\ FracDen * plan_out.tail <= MaxFrac * plan_in.duration
      /\ plan_out.lead + plan_out.tail < plan_in.duration
      /\ plan_out.new = plan_in.duration - plan_out.lead - plan_out.tail

\* pass 1 on a 10 s clip whose leading silence lasts 8.5 s: the lead trim of 8.4 s is
\* clamped to 3 s and applied
C10_Witness ==
    /\ plan_pc = "pass1"
    /\ plan_in = [duration |-> 10 * Second,
                  events |-> <<Event("start", 0), Event("end", 850 * Centi)>>]
    /\ plan_out.lead = 3 * Second /\ plan_out.tail = 0

---------------------------------------------------------------------------
(* Claims about the passes over the manifest (Spec) *)

TrimSum(rec) == rec.trim_start + rec.trim_end

\* C3: from one write of the manifest to the next (pass 1, then each in-place pass) no
\* clip's recorded duration increases and no clip's trim_start + trim_end decreases; the
\* first write is compared with the record process_video wrote (no trims yet).
C3_TrimMonotonic ==
    [][\A i \in Clips :
         manifest' # <<>> =>
           IF manifest = <<>>
           THEN /\ manifest'[i].duration <= summary[i].duration
                /\ TrimSum(manifest'[i]) >= 0
           ELSE /\ manifest'[i].duration <= manifest[i].duration
                /\ TrimSum(manifest'[i]) >= TrimSum(manifest[i])]_vars

\* after pass 1 and two in-place passes clip 1 has been trimmed at both ends
C3_Witness ==
    /\ pc = "idle" /\ passes = 2
    /\ manifest # <<>>
    /\ manifest[1].trim_start > 90 * Centi /\ manifest[1].trim_end > 0
    /\ manifest[1].duration = manifest[1].original_duration - TrimSum(manifest[1])
    /\ manifest[1].duration < 210 * Centi

\* C6: an in-place pass over a clip in which no silence is detected returns (0, 0),
\* does not run ffmpeg, leaves the MP3 as it was and leaves the clip's record (duration,
\* trim_start, trim_end) exactly as the previous pass wrote it, in memory and, once the
\* pass has written it, in the manifest.
C6_NoSilenceNoChange ==
    (last.kind = "clip" /\ last.pass = 2 /\ last.nosilence) =>
      /\ last.lead = 0 /\ last.tail = 0 /\ ~last.ran
      /\ mp3[last.clip] = last.file_before
      /\ work[last.clip] = last.before
      /\ pc = "idle" => manifest[last.clip] = last.before

\* the second in-place pass finds no silence in clip 1, whose record still holds the
\* lead trim of 0.9 s that pass 1 recorded
C6_Witness ==
    /\ passes = 2 /\ pc = "idle"
    /\ last.kind = "clip" /\ last.pass = 2 /\ last.nosilence
    /\ last.before.trim_start = 90 * Centi /\ last.before.trim_end = 0
    /\ manifest[last.clip].trim_start = 90 * Centi
    /\ manifest[last.clip].duration = 210 * Centi

\* the cumulative trims a record holds (none before pass 1 has written them)
RecordedTrims(rec) ==
    IF rec.audio = "wav" THEN <<0, 0>> ELSE <<rec.trim_start, rec.trim_end>>

\* C7: a failed transcode, in pass 1 or in pass 2, leaves the clip's media file as it
\* was and the clip's record (duration, audio reference, cumulative trims) as the last
\* successful step left it.
C7_FailedTranscodeKeepsLastGoodState ==
    (last.kind = "clip" /\ last.ran /\ ~last.ok) =>
      /\ mp3[last.clip] = last.file_before
      /\ work[last.clip].duration = last.before.duration
      /\ work[last.clip].audio = last.before.audio
      /\ RecordedTrims(work[last.clip]) = RecordedTrims(last.before)

\* C8: a clip whose media cannot be probed does not end the run: the loop goes on to
\* the remaining clips and the manifest is written.
C8_ClipFailureDoesNotAbortRun ==
    last.kind = "probe_failed" => pc \in {"pass1", "pass2", "idle"}

---------------------------------------------------------------------------
(* The manifest as a ledger of what was cut (Spec) *)

\* what a manifest record accounts for: the audio left plus the audio cut at both ends
Accounted(rec) == rec.duration + rec.trim_start + rec.trim_end

LedgerConsistent(records) ==
    \A i \in DOMAIN records : records[i].original_duration = Accounted(records[i])

\* the file of a clip, where there is one, is as long as the manifest says
ProbedIsRecorded ==
    \A i \in DOMAIN manifest : mp3[i].exists => mp3[i].dur = manifest[i].duration

\* the in-place step last taken found silence and planned a cut, but the veto on a
\* remainder under 0.5 s kept the file
LastVetoed ==
    /\ last.kind = "clip" /\ last.pass = 2 /\ ~last.nosilence /\ ~last.ran
    /\ last.file_before.dur - last.plan_lead - last.plan_tail < MinKeep

\* the in-place step last taken planned cuts of at most 0.1 s each and applied none
LastBelowThreshold ==
    /\ last.kind = "clip" /\ last.pass = 2 /\ ~last.nosilence /\ ~last.ran
    /\ last.file_before.dur - last.plan_lead - last.plan_tail >= MinKeep
    /\ last.plan_lead <= ApplyThreshold /\ last.plan_tail <= ApplyThreshold

\* the in-place step last taken ran ffmpeg and ffmpeg failed
LastTranscodeFailed ==
    last.kind = "clip" /\ last.pass = 2 /\ last.ran /\ ~last.ok

\* C11: after pass 1 and after any number of in-place passes, whatever each of their
\* steps did (cut, failed transcode, veto, cuts of at most 0.1 s left unapplied), every
\* record of the manifest, and every record a running pass has prepared, satisfies
\* original_duration = duration + trim_start + trim_end
C11_LedgerConsistent ==
    LedgerConsistent(manifest) /\ LedgerConsistent(work)

\* both in-place passes have run; the last step of the second one planned a cut on a
\* record that already carried cuts, ffmpeg failed, and record and file stayed as they
\* were, the file as long as the record says
C11_Witness ==
    /\ pc = "idle" /\ passes = 2
    /\ LastTranscodeFailed
    /\ last.plan_lead + last.plan_tail > 0
    /\ last.before.trim_start > 0 /\ last.before.trim_end > 0
    /\ manifest[last.clip] = last.before
    /\ mp3[last.clip] = last.file_before
    /\ ProbedIsRecorded
    /\ LedgerConsistent(manifest)

---------------------------------------------------------------------------
(* Specifications *)

\* detect_scenes_upper_half on bounded inputs
SegNext == detect_scenes_upper_half /\ UNCHANGED <<planVars, pipeVars>>
InitSegments == SegInit /\ PlanIdle /\ PipeIdle
SpecSegments == InitSegments /\ [][SegNext]_vars

\* one clip through pass 1 or pass 2
PlanNext ==
    \/ RunPass1 /\ UNCHANGED <<segVars, pipeVars>>
    \/ RunPass2 /\ UNCHANGED <<segVars, pipeVars>>
InitPlanner == SegIdle /\ PlanInit /\ PipeIdle
SpecPlanner == InitPlanner /\ [][PlanNext]_vars

\* pass 1 and then any number of runs of pass 2 over the manifest
Init == SegIdle /\ PlanIdle /\ PipeInit
Next ==
    \/ Pass1Start /\ UNCHANGED <<segVars, planVars>>
    \/ Pass1Clip /\ UNCHANGED <<segVars, planVars>>
    \/ Pass1ProbeFails /\ UNCHANGED <<segVars, planVars>>
    \/ Pass1End /\ UNCHANGED <<segVars, planVars>>
    \/ Pass2Start /\ UNCHANGED <<segVars, planVars>>
    \/ Pass2Clip /\ UNCHANGED <<segVars, planVars>>
    \/ Pass2ProbeFails /\ UNCHANGED <<segVars, planVars>>
    \/ Pass2End /\ UNCHANGED <<segVars, planVars>>
Spec == Init /\ [][Next]_vars

====
